---- MODULE Spec2Model ----
(***************************************************************************)
(* Model of docs/source/conf.py of Lumino: the module-level reading of the *)
(* version out of package.json, and the Sphinx hook setup(app) with its    *)
(* two helpers build_api_docs(out_dir) and build_examples(out_dir).        *)
(*                                                                         *)
(* The program is one sequential script.  Its state is the position in    *)
(* the script (pc), the part of the filesystem it reads and writes, and    *)
(* the operations it has started in the current run (log).  The outcome of *)
(* every external process and of every filesystem operation is an input:   *)
(* each may succeed or fail, and a failure raises an exception that        *)
(* nothing in the file catches.                                            *)
(***************************************************************************)
EXTENDS Integers, Sequences, FiniteSets, TLC

VARIABLES
    pc,          \* position in the script, "done" or "error"
    log,         \* operations of this run, in order, each with its outcome
    css_files,   \* app's registered stylesheets
    changelog,   \* docs/source/changelog.md
    docsApi,     \* docs/source/api: [exists, files]
    outApi,      \* <out_dir>/api: [exists, files], files are <<name, content>>
    repoEx,      \* examples/example-<e> in the repository root, per example
    docsEx,      \* docs/source/examples: entry name -> state of the entry
    outEx,       \* <out_dir>/examples: [exists, entries]
    i,           \* index of the for loop over EXAMPLES
    yarn,        \* the local `yarn` (result of shutil.which), "unset" before
    pre,         \* the filesystem as it was when the current helper was called
    loop_failed, \* a removal or copy of the for loop has failed, in any run so far
    manifest,    \* package.json: [exists, text], text a sequence of tokens
    data,        \* the parsed manifest
    version,     \* configuration value version
    release      \* configuration value release

vars == <<pc, log, css_files, changelog, docsApi, outApi, repoEx, docsEx, outEx,
          i, yarn, pre, loop_failed, manifest, data, version, release>>

fsVars == <<changelog, docsApi, outApi, repoEx, docsEx, outEx>>
confVars == <<manifest, data, version, release>>

----------------------------------------------------------------------------
(* Names.                                                                  *)

EXAMPLES == <<"accordionpanel", "datagrid", "dockpanel">>

ExampleNames == {EXAMPLES[k] : k \in 1..Len(EXAMPLES)}

\* An entry of docs/source/examples that is none of the examples.
OtherEntry == "other"

EntryNames == ExampleNames \cup {OtherEntry}

\* docs/source/api/algorithm/index.html, relative to docs/source/api
api_index == "algorithm/index.html"

\* the name the fixed page api_index.html is copied to
IndexName == "index.html"

\* the files the API-doc generator can write under docs/source/api
ApiNames == {api_index, IndexName}

\* a file of an earlier build that the generator no longer writes
StaleName == "stale.html"

\* A directory of one example is absent, present without its index.html, or
\* present with it.
EntryStates == {"none", "noindex", "index"}

Absent == [exists |-> FALSE, files |-> {}]

NoEntries == [e \in EntryNames |-> "none"]

AbsentEx == [exists |-> FALSE, entries |-> NoEntries]

NoPre == [api |-> FALSE, ex |-> FALSE, outApi |-> Absent, outEx |-> AbsentEx,
          docsEx |-> NoEntries]

----------------------------------------------------------------------------
(* Library operations, as the script uses them.                            *)

\* osp.exists(api_index)
HasApiMarker == docsApi.exists /\ api_index \in docsApi.files

\* osp.exists(example_index), example_index = examples_dir/EXAMPLES[0]/index.html
HasExampleMarker == docsEx[EXAMPLES[1]] = "index"

\* (mutant) the exit status is not looked at, as with subprocess.call
AfterCallUnchecked(ok, next) == next

\* check_call: a non-zero exit raises CalledProcessError, which ends the run.
AfterCall(ok, next) == IF ok THEN next ELSE "error"

\* (mutant) the error of a filesystem operation is swallowed
AfterFsIgnored(ok, next) == next

\* A filesystem operation that fails raises OSError or shutil.Error.
AfterFs(ok, next) == IF ok THEN next ELSE "error"

\* shutil.copytree(docs_api, dest_dir) that succeeded: every file of the source.
CopiedFiles(files) == {<<f, "gen">> : f \in files}

\* (mutant) the fixed page is not copied over the generated index.html
OverlayMissing(files) == files

\* shutil.copy(api_index.html, dest_dir/index.html): the file is replaced.
Overlay(files) == {p \in files : p[1] # IndexName} \cup {<<IndexName, "fixed">>}

\* What a failed rmtree or copytree of a whole tree can leave of its
\* entries: the model keeps the two ends, none of them and all of them (the
\* error then came from the directory itself).
PartOf(entries) == {NoEntries, entries}

\* The same for a tree given by its set of files.
PartOfFiles(files) == {{}, files}

\* What a failed copytree of one example directory can leave at the
\* destination: nothing, or the directory with some of the files.
PartOfEntry(s) == IF s = "index" THEN {"none", "noindex", "index"}
                  ELSE IF s = "noindex" THEN {"none", "noindex"} ELSE {"none"}

\* What a failed rmtree of one example directory can leave.
LeftOfEntry(s) == IF s = "index" THEN {"noindex", "index"} ELSE {s}

\* How an operation ended: "ok", "failed", or for a command whose program
\* shutil.which did not find, "notfound".
Outcome(ok) == IF ok THEN "ok" ELSE "failed"

CallOutcome(found, ok) == IF ~found THEN "notfound" ELSE Outcome(ok)

\* The log grows by one entry: <<calling function, operation, a, b, outcome>>.
Did(fn, op, a, b, outcome) == Append(log, <<fn, op, a, b, outcome>>)

\* root/examples/example-<example>
ExampleSource(e) ==
    CASE e = "accordionpanel" -> "examples/example-accordionpanel"
      [] e = "datagrid" -> "examples/example-datagrid"
      [] e = "dockpanel" -> "examples/example-dockpanel"

\* docs/source/examples/<example>
ExampleDest(e) ==
    CASE e = "accordionpanel" -> "docs/source/examples/accordionpanel"
      [] e = "datagrid" -> "docs/source/examples/datagrid"
      [] e = "dockpanel" -> "docs/source/examples/dockpanel"

----------------------------------------------------------------------------
(* The configuration table: version and release, lines 77-80.              *)

\* package.json is modelled as its sequence of JSON tokens; the three
\* string tokens stand for the JSON strings "version", "name" and "1.0.0".
Strings == {"version", "name", "1.0.0"}

Tokens == {"{", "}", ":", ","} \cup Strings

\* A parsed JSON value: a string or an object (a Python dict, as its set
\* of <<key, value>> items).  Unset is a name that is not bound.
Str(x) == [t |-> "str", s |-> x, m |-> {}]
Obj(items) == [t |-> "obj", s |-> "", m |-> items]
Unset == [t |-> "unset", s |-> "", m |-> {}]

\* json.JSONDecodeError
Bad == [ok |-> FALSE, val |-> Unset, next |-> 0]

\* json.loads, by recursive descent: a value is a string or an object, an
\* object is "{" "}" or "{" key ":" value ("," key ":" value)* "}", and a
\* later item with the same key replaces the earlier one.
RECURSIVE ParseValue(_, _), ParseMembers(_, _, _)
ParseValue(text, k) ==
    IF k > Len(text) THEN Bad
    ELSE IF text[k] \in Strings THEN [ok |-> TRUE, val |-> Str(text[k]), next |-> k + 1]
    ELSE IF text[k] = "{"
         THEN IF k + 1 <= Len(text) /\ text[k + 1] = "}"
              THEN [ok |-> TRUE, val |-> Obj({}), next |-> k + 2]
              ELSE ParseMembers(text, k + 1, {})
    ELSE Bad

ParseMembers(text, k, items) ==
    IF k + 1 > Len(text) THEN Bad
    ELSE IF text[k] \notin Strings \/ text[k + 1] # ":" THEN Bad
    ELSE LET v == ParseValue(text, k + 2)
             kept == {p \in items : p[1] # text[k]} \cup {<<text[k], v.val>>}
         IN  IF ~v.ok \/ v.next > Len(text) THEN Bad
             ELSE IF text[v.next] = "," THEN ParseMembers(text, v.next + 1, kept)
             ELSE IF text[v.next] = "}"
                  THEN [ok |-> TRUE, val |-> Obj(kept), next |-> v.next + 1]
             ELSE Bad

\* json.loads(text): the whole text is one value, nothing follows it
JsonLoads(text) ==
    LET r == ParseValue(text, 1)
    IN  IF r.ok /\ r.next = Len(text) + 1 THEN r ELSE Bad

\* (mutant) another field of the manifest is read
VersionKeyName == "name"

\* the key of data['version']
VersionKey == "version"

\* d[key] succeeds: d is a dict that has the key (KeyError, TypeError otherwise)
HasKey(d, key) == d.t = "obj" /\ \E p \in d.m : p[1] = key

\* d[key]
Subscript(d, key) == (CHOOSE p \in d.m : p[1] = key)[2]

\* package_json.read_text(); data = json.loads(...);
\* version = release = data['version'].  An exception at any of the three
\* ends the loading of the configuration.
load_conf ==
    /\ pc = "conf_load"
    /\ LET r == JsonLoads(manifest.text) IN
       IF ~manifest.exists \/ ~r.ok
       THEN /\ pc' = "error"
            /\ UNCHANGED <<data, version, release>>
       ELSE /\ data' = r.val
            /\ IF HasKey(r.val, VersionKey)
               THEN /\ version' = Subscript(r.val, VersionKey)
                    /\ release' = Subscript(r.val, VersionKey)
                    /\ pc' = "conf_done"
               ELSE /\ pc' = "error"
                    /\ UNCHANGED <<version, release>>
    /\ UNCHANGED <<log, css_files, i, yarn, pre, loop_failed, manifest>>
    /\ UNCHANGED fsVars

----------------------------------------------------------------------------
(* setup(app), lines 286-291.                                              *)

\* shutil.copy(CHANGELOG.md, HERE/changelog.md)
setup_copy_changelog ==
    /\ pc = "setup_copy"
    /\ \E ok \in BOOLEAN :
        /\ pc' = AfterFs(ok, "setup_css")
        /\ changelog' = IF ok THEN "copied" ELSE changelog
        /\ log' = Did("setup", "copy", "CHANGELOG.md", "docs/source/changelog.md",
                      Outcome(ok))
    /\ UNCHANGED <<css_files, docsApi, outApi, repoEx, docsEx, outEx, i, yarn, pre>>
    /\ UNCHANGED <<confVars, loop_failed>>

\* (mutant) build_examples is called where build_api_docs should be
setup_add_css_file_then_examples ==
    /\ pc = "setup_css"
    /\ css_files' = Append(css_files, "css/custom.css")
    /\ log' = Did("setup", "add_css_file", "css/custom.css", "", "ok")
    /\ pc' = "ex_check"
    /\ UNCHANGED <<i, yarn, pre>>
    /\ UNCHANGED fsVars
    /\ UNCHANGED <<confVars, loop_failed>>

\* app.add_css_file('css/custom.css'), then the call of build_api_docs
setup_add_css_file ==
    /\ pc = "setup_css"
    /\ css_files' = Append(css_files, "css/custom.css")
    /\ log' = Did("setup", "add_css_file", "css/custom.css", "", "ok")
    /\ pc' = "api_check"
    /\ UNCHANGED <<i, yarn, pre>>
    /\ UNCHANGED fsVars
    /\ UNCHANGED <<confVars, loop_failed>>

----------------------------------------------------------------------------
(* build_api_docs(out_dir), lines 102-126.                                 *)

\* (mutant) the marker is not looked at
ApiBranchAlwaysBuilds == "api_npm"

\* if osp.exists(api_index): ... else: ...
ApiBranch == IF HasApiMarker THEN "api_rmtree" ELSE "api_npm"

build_api_docs_check ==
    /\ pc = "api_check"
    /\ pre' = [pre EXCEPT !.api = HasApiMarker, !.outApi = outApi]
    /\ pc' = ApiBranch
    /\ UNCHANGED <<log, css_files, i, yarn>>
    /\ UNCHANGED fsVars
    /\ UNCHANGED <<confVars, loop_failed>>

\* npm = [shutil.which('npm')]; check_call(npm + ['install', '-g', 'yarn'])
\* With npm not found the argument list starts with None and check_call
\* raises before a process exists.
api_npm_install ==
    /\ pc = "api_npm"
    /\ \E found \in BOOLEAN, ok \in BOOLEAN :
        /\ log' = Did("build_api_docs", "check_call", "npm install -g yarn", "root",
                      CallOutcome(found, ok))
        /\ pc' = AfterCall(found /\ ok, "api_yarn")
    /\ UNCHANGED <<css_files, i, yarn, pre>>
    /\ UNCHANGED fsVars
    /\ UNCHANGED <<confVars, loop_failed>>

\* yarn = [shutil.which('yarn')]; check_call(yarn, cwd=root)
api_yarn ==
    /\ pc = "api_yarn"
    /\ \E found \in BOOLEAN, ok \in BOOLEAN :
        /\ yarn' = IF found THEN "yarn" ELSE "None"
        /\ log' = Did("build_api_docs", "check_call", "yarn", "root", CallOutcome(found, ok))
        /\ pc' = AfterCall(found /\ ok, "api_docs")
    /\ UNCHANGED <<css_files, i, pre>>
    /\ UNCHANGED fsVars
    /\ UNCHANGED <<confVars, loop_failed>>

\* check_call(yarn + ["docs"], cwd=root).  The generator writes under
\* docs/source/api and nowhere else in the modelled filesystem; what it
\* writes is not decided by this file.
api_yarn_docs ==
    /\ pc = "api_docs"
    /\ \E ok \in BOOLEAN :
        /\ pc' = AfterCall(ok, "api_rmtree")
        /\ log' = Did("build_api_docs", "check_call", "yarn docs", "root", Outcome(ok))
    /\ \E out \in {docsApi} \cup {[exists |-> TRUE, files |-> F] : F \in SUBSET ApiNames} :
        docsApi' = out
    /\ UNCHANGED <<css_files, changelog, outApi, repoEx, docsEx, outEx, i, yarn, pre>>
    /\ UNCHANGED <<confVars, loop_failed>>

\* if osp.exists(dest_dir): shutil.rmtree(dest_dir)
api_rmtree ==
    /\ pc = "api_rmtree"
    /\ IF outApi.exists
       THEN \E ok \in BOOLEAN :
                /\ log' = Did("build_api_docs", "rmtree", "out/api", "", Outcome(ok))
                /\ pc' = AfterFs(ok, "api_copytree")
                /\ IF ok THEN outApi' = Absent
                   ELSE \E left \in PartOfFiles(outApi.files) :
                          outApi' = [exists |-> TRUE, files |-> left]
       ELSE /\ pc' = "api_copytree"
            /\ UNCHANGED <<log, outApi>>
    /\ UNCHANGED <<css_files, changelog, docsApi, repoEx, docsEx, outEx, i, yarn, pre>>
    /\ UNCHANGED <<confVars, loop_failed>>

\* shutil.copytree(docs_api, dest_dir): fails when docs_api is missing or
\* dest_dir exists; a failed copy can leave any part of the tree.
api_copytree ==
    /\ pc = "api_copytree"
    /\ IF ~docsApi.exists \/ outApi.exists
       THEN /\ pc' = AfterFs(FALSE, "api_index")
            /\ log' = Did("build_api_docs", "copytree", "docs/source/api", "out/api",
                          Outcome(FALSE))
            /\ UNCHANGED outApi
       ELSE \E ok \in BOOLEAN :
            /\ pc' = AfterFs(ok, "api_index")
            /\ log' = Did("build_api_docs", "copytree", "docs/source/api", "out/api",
                          Outcome(ok))
            /\ IF ok THEN outApi' = [exists |-> TRUE, files |-> CopiedFiles(docsApi.files)]
               ELSE \E part \in PartOfFiles(CopiedFiles(docsApi.files)) :
                      outApi' = [exists |-> TRUE, files |-> part]
    /\ UNCHANGED <<css_files, changelog, docsApi, repoEx, docsEx, outEx, i, yarn, pre>>
    /\ UNCHANGED <<confVars, loop_failed>>

\* shutil.copy(HERE/api_index.html, dest_dir/index.html); the helper returns
\* and setup calls build_examples.
api_copy_index ==
    /\ pc = "api_index"
    /\ \E ok \in BOOLEAN :
        /\ pc' = AfterFs(ok, "ex_check")
        /\ log' = Did("build_api_docs", "copy", "api_index.html", "out/api/index.html",
                      Outcome(ok))
        /\ outApi' = IF ok THEN [outApi EXCEPT !.files = Overlay(outApi.files)]
                            ELSE outApi
    /\ UNCHANGED <<css_files, changelog, docsApi, repoEx, docsEx, outEx, i, yarn, pre>>
    /\ UNCHANGED <<confVars, loop_failed>>

----------------------------------------------------------------------------
(* build_examples(out_dir), lines 129-162.                                 *)

\* (mutant) the build is skipped whatever the marker
ExBranchNeverBuilds == "ex_rmtree"

\* if osp.exists(example_index): ... else: ...
ExBranch == IF HasExampleMarker THEN "ex_rmtree" ELSE "ex_npm"

build_examples_check ==
    /\ pc = "ex_check"
    /\ pre' = [pre EXCEPT !.ex = HasExampleMarker, !.outEx = outEx, !.docsEx = docsEx]
    /\ pc' = ExBranch
    /\ UNCHANGED <<log, css_files, i, yarn>>
    /\ UNCHANGED fsVars
    /\ UNCHANGED <<confVars, loop_failed>>

\* npm = [shutil.which('npm')]; check_call(npm + ['install', '-g', 'yarn'])
ex_npm_install ==
    /\ pc = "ex_npm"
    /\ \E found \in BOOLEAN, ok \in BOOLEAN :
        /\ log' = Did("build_examples", "check_call", "npm install -g yarn", "root",
                      CallOutcome(found, ok))
        /\ pc' = AfterCall(found /\ ok, "ex_yarn")
    /\ UNCHANGED <<css_files, i, yarn, pre>>
    /\ UNCHANGED fsVars
    /\ UNCHANGED <<confVars, loop_failed>>

\* yarn = [shutil.which('yarn')]; check_call(yarn, cwd=root)
ex_yarn ==
    /\ pc = "ex_yarn"
    /\ \E found \in BOOLEAN, ok \in BOOLEAN :
        /\ yarn' = IF found THEN "yarn" ELSE "None"
        /\ log' = Did("build_examples", "check_call", "yarn", "root", CallOutcome(found, ok))
        /\ pc' = AfterCall(found /\ ok, "ex_build")
    /\ UNCHANGED <<css_files, i, pre>>
    /\ UNCHANGED fsVars
    /\ UNCHANGED <<confVars, loop_failed>>

\* check_call(yarn + ["build"], cwd=root)
ex_yarn_build ==
    /\ pc = "ex_build"
    /\ \E ok \in BOOLEAN :
        /\ pc' = AfterCall(ok, "ex_build_examples")
        /\ log' = Did("build_examples", "check_call", "yarn build", "root", Outcome(ok))
    /\ UNCHANGED <<css_files, i, yarn, pre>>
    /\ UNCHANGED fsVars
    /\ UNCHANGED <<confVars, loop_failed>>

\* What yarn build:examples can leave under root/examples: the outputs of
\* the first n examples, for any n (all of them when nothing went wrong).
BuiltExamples ==
    {[e \in ExampleNames |->
        IF \E k \in 1..n : EXAMPLES[k] = e THEN "index" ELSE "none"] :
     n \in 0..Len(EXAMPLES)}

\* check_call(yarn + ["build:examples"], cwd=root), then the for loop is
\* entered.  The command writes under examples/example-<e> of the repository
\* root and nowhere else in the modelled filesystem.
ex_yarn_build_examples ==
    /\ pc = "ex_build_examples"
    /\ \E ok \in BOOLEAN :
        /\ pc' = AfterCall(ok, "loop_rmtree")
        /\ log' = Did("build_examples", "check_call", "yarn build:examples", "root",
                      Outcome(ok))
    /\ \E out \in {repoEx} \cup BuiltExamples :
        repoEx' = out
    /\ i' = 1
    /\ UNCHANGED <<css_files, changelog, docsApi, outApi, docsEx, outEx, yarn, pre>>
    /\ UNCHANGED <<confVars, loop_failed>>

\* for example in EXAMPLES: if osp.exists(dest_dir): shutil.rmtree(dest_dir)
loop_rmtree ==
    /\ pc = "loop_rmtree"
    /\ LET example == EXAMPLES[i] IN
       IF docsEx[example] # "none"
       THEN \E ok \in BOOLEAN :
                /\ log' = Did("build_examples", "rmtree", ExampleDest(example), "",
                              Outcome(ok))
                /\ pc' = AfterFs(ok, "loop_copytree")
                /\ IF ok THEN docsEx' = [docsEx EXCEPT ![example] = "none"]
                   ELSE \E left \in LeftOfEntry(docsEx[example]) :
                          docsEx' = [docsEx EXCEPT ![example] = left]
       ELSE /\ pc' = "loop_copytree"
            /\ UNCHANGED <<log, docsEx>>
    /\ UNCHANGED <<css_files, changelog, docsApi, outApi, repoEx, outEx, i, yarn, pre>>
    /\ loop_failed' = (loop_failed \/ (log' # log /\ log'[Len(log')][5] # "ok"))
    /\ UNCHANGED confVars

\* (mutant) the loop is left after its first example
LoopNextFirstOnly == "ex_rmtree"

\* after the last example the loop is left
LoopNext == IF i < Len(EXAMPLES) THEN "loop_rmtree" ELSE "ex_rmtree"

\* shutil.copytree(source, dest_dir), source = root/examples/example-<example>
loop_copytree ==
    /\ pc = "loop_copytree"
    /\ LET example == EXAMPLES[i] IN
       IF repoEx[example] = "none" \/ docsEx[example] # "none"
          THEN /\ pc' = AfterFs(FALSE, LoopNext)
               /\ log' = Did("build_examples", "copytree", ExampleSource(example),
                             ExampleDest(example), Outcome(FALSE))
               /\ UNCHANGED docsEx
          ELSE \E ok \in BOOLEAN :
               /\ pc' = AfterFs(ok, LoopNext)
               /\ log' = Did("build_examples", "copytree", ExampleSource(example),
                             ExampleDest(example), Outcome(ok))
               /\ IF ok THEN docsEx' = [docsEx EXCEPT ![example] = repoEx[example]]
                  ELSE \E part \in PartOfEntry(repoEx[example]) :
                         docsEx' = [docsEx EXCEPT ![example] = part]
    /\ i' = IF pc' = "loop_rmtree" THEN i + 1 ELSE i
    /\ UNCHANGED <<css_files, changelog, docsApi, outApi, repoEx, outEx, yarn, pre>>
    /\ loop_failed' = (loop_failed \/ (log' # log /\ log'[Len(log')][5] # "ok"))
    /\ UNCHANGED confVars

\* dest_dir = out_dir/examples; if osp.exists(dest_dir): shutil.rmtree(dest_dir)
ex_rmtree ==
    /\ pc = "ex_rmtree"
    /\ IF outEx.exists
       THEN \E ok \in BOOLEAN :
                /\ log' = Did("build_examples", "rmtree", "out/examples", "", Outcome(ok))
                /\ pc' = AfterFs(ok, "ex_copytree")
                /\ IF ok THEN outEx' = AbsentEx
                   ELSE \E left \in PartOf(outEx.entries) :
                          outEx' = [exists |-> TRUE, entries |-> left]
       ELSE /\ pc' = "ex_copytree"
            /\ UNCHANGED <<log, outEx>>
    /\ UNCHANGED <<css_files, changelog, docsApi, outApi, repoEx, docsEx, i, yarn, pre>>
    /\ UNCHANGED <<confVars, loop_failed>>

\* shutil.copytree(examples_dir, dest_dir): the whole of docs/source/examples
ex_copytree ==
    /\ pc = "ex_copytree"
    /\ IF outEx.exists
       THEN /\ pc' = AfterFs(FALSE, "done")
            /\ log' = Did("build_examples", "copytree", "docs/source/examples",
                          "out/examples", Outcome(FALSE))
            /\ UNCHANGED outEx
       ELSE \E ok \in BOOLEAN :
            /\ pc' = AfterFs(ok, "done")
            /\ log' = Did("build_examples", "copytree", "docs/source/examples",
                          "out/examples", Outcome(ok))
            /\ IF ok THEN outEx' = [exists |-> TRUE, entries |-> docsEx]
               ELSE \E part \in PartOf(docsEx) :
                      outEx' = [exists |-> TRUE, entries |-> part]
    /\ UNCHANGED <<css_files, changelog, docsApi, outApi, repoEx, docsEx, i, yarn, pre>>
    /\ UNCHANGED <<confVars, loop_failed>>

----------------------------------------------------------------------------
(* The documentation generator.                                            *)

\* A new documentation build: a new process, a new app, setup(app) is called
\* again over the filesystem the earlier builds left.
Restart ==
    /\ pc \in {"done", "error"}
    /\ pc' = "setup_copy"
    /\ log' = <<>>
    /\ css_files' = <<>>
    /\ i' = 0
    /\ yarn' = "unset"
    /\ pre' = NoPre
    /\ UNCHANGED fsVars
    /\ UNCHANGED <<confVars, loop_failed>>

InitRun ==
    /\ pc = "setup_copy"
    /\ log = <<>>
    /\ css_files = <<>>
    /\ i = 0
    /\ yarn = "unset"
    /\ pre = NoPre
    /\ loop_failed = FALSE

\* setup is called after the configuration was loaded (lines 77-80): here
\* from the manifest {"version": "1.0.0"}.
InitConfLoaded ==
    /\ manifest = [exists |-> TRUE, text |-> <<"{", "version", ":", "1.0.0", "}">>]
    /\ data = JsonLoads(manifest.text).val
    /\ version = Subscript(data, VersionKey)
    /\ release = version

InitFs ==
    /\ changelog = "none"
    /\ docsApi \in {Absent, [exists |-> TRUE, files |-> ApiNames],
                    [exists |-> TRUE, files |-> ApiNames \ {api_index}]}
    /\ outApi \in {Absent, [exists |-> TRUE,
                            files |-> {<<StaleName, "old">>, <<IndexName, "old">>}]}
    /\ repoEx \in {[e \in ExampleNames |-> s] : s \in {"none", "index"}}
    /\ \E n \in 0..Len(EXAMPLES), other \in {"none", "index"},
          first \in {"noindex", "index"} :
          docsEx = [e \in EntryNames |->
                      IF e = OtherEntry THEN other
                      ELSE IF \E k \in 1..n : EXAMPLES[k] = e
                           THEN (IF e = EXAMPLES[1] THEN first ELSE "index")
                           ELSE "none"]
    /\ outEx \in {AbsentEx, [exists |-> TRUE, entries |-> [NoEntries EXCEPT ![OtherEntry] = "index"]]}

Init == InitRun /\ InitConfLoaded /\ InitFs

Next ==
    \/ setup_copy_changelog
    \/ setup_add_css_file
    \/ build_api_docs_check
    \/ api_npm_install
    \/ api_yarn
    \/ api_yarn_docs
    \/ api_rmtree
    \/ api_copytree
    \/ api_copy_index
    \/ build_examples_check
    \/ ex_npm_install
    \/ ex_yarn
    \/ ex_yarn_build
    \/ ex_yarn_build_examples
    \/ loop_rmtree
    \/ loop_copytree
    \/ ex_rmtree
    \/ ex_copytree
    \/ Restart

Spec == Init /\ [][Next]_vars

----------------------------------------------------------------------------
(* Reading the log.                                                        *)

IsApiEvent(ev) == ev[1] = "build_api_docs"
IsExEvent(ev) == ev[1] = "build_examples"
IsCall(ev) == ev[2] = "check_call"

\* the operations of one helper, in order
ApiLog == SelectSeq(log, IsApiEvent)
ExLog == SelectSeq(log, IsExEvent)

\* an operation without its outcome
Name(ev) == <<ev[1], ev[2], ev[3], ev[4]>>
Names(evs) == [k \in 1..Len(evs) |-> Name(evs[k])]

IsPrefix(s, t) == Len(s) <= Len(t) /\ SubSeq(t, 1, Len(s)) = s

\* every operation but the last one ended well
OnlyLastMayFail(evs) == \A k \in 1..Len(evs) : k < Len(evs) => evs[k][5] = "ok"

ApiCalls == << <<"build_api_docs", "check_call", "npm install -g yarn", "root">>,
               <<"build_api_docs", "check_call", "yarn", "root">>,
               <<"build_api_docs", "check_call", "yarn docs", "root">> >>

ApiRemove == <<"build_api_docs", "rmtree", "out/api", "">>
ApiCopyTree == <<"build_api_docs", "copytree", "docs/source/api", "out/api">>
ApiCopyIndex == <<"build_api_docs", "copy", "api_index.html", "out/api/index.html">>

\* build_api_docs has returned normally in this run
ApiCompleted == \E k \in 1..Len(log) : Name(log[k]) = ApiCopyIndex /\ log[k][5] = "ok"

----------------------------------------------------------------------------
(* Claims about build_api_docs.                                            *)

\* C1: when the API-doc marker docs/source/api/algorithm/index.html exists
\* at the call of build_api_docs, the call makes no external process
\* invocation: no npm or yarn command appears among its operations.
C1_MarkerSkipsBuild ==
    pre.api => \A k \in 1..Len(ApiLog) : ~IsCall(ApiLog[k])

\* build_api_docs was called with the marker present and has returned
C1_Witness == pre.api /\ ApiCompleted /\ pc = "ex_check"

\* C2: when the marker is absent, build_api_docs runs npm install -g yarn,
\* yarn, yarn docs in this order, each only after the one before it ended
\* well, and all three have ended well before <out_dir>/api is removed or
\* copied into.
C2_ApiBuildOrder ==
    ~pre.api =>
        /\ OnlyLastMayFail(ApiLog)
        /\ \/ IsPrefix(Names(ApiLog), ApiCalls)
           \/ IsPrefix(Names(ApiLog), ApiCalls \o <<ApiRemove, ApiCopyTree, ApiCopyIndex>>)
           \/ IsPrefix(Names(ApiLog), ApiCalls \o <<ApiCopyTree, ApiCopyIndex>>)

\* the build ran and the copy into <out_dir>/api followed it
C2_Witness == ~pre.api /\ ApiCompleted /\ Len(ApiLog) = 6

\* C3: once build_api_docs has returned normally, <out_dir>/api holds one
\* file for each file of docs/source/api, as generated, except that
\* index.html is the fixed page api_index.html; nothing else is in it,
\* whatever it held before the call.
C3_ApiDestination ==
    ApiCompleted =>
        /\ outApi.exists
        /\ {p[1] : p \in outApi.files} = docsApi.files \cup {IndexName}
        /\ \A p \in outApi.files :
              p[2] = IF p[1] = IndexName THEN "fixed" ELSE "gen"

\* the destination held stale files before a call that returned normally
C3_Witness ==
    /\ ApiCompleted
    /\ <<StaleName, "old">> \in pre.outApi.files
    /\ <<IndexName, "old">> \in pre.outApi.files
    /\ IndexName \in docsApi.files

----------------------------------------------------------------------------
(* Claims about build_examples.                                            *)

ExCalls == << <<"build_examples", "check_call", "npm install -g yarn", "root">>,
              <<"build_examples", "check_call", "yarn", "root">>,
              <<"build_examples", "check_call", "yarn build", "root">>,
              <<"build_examples", "check_call", "yarn build:examples", "root">> >>

ExRemove(e) == <<"build_examples", "rmtree", ExampleDest(e), "">>
ExCopy(e) == <<"build_examples", "copytree", ExampleSource(e), ExampleDest(e)>>
ExRemoveOut == <<"build_examples", "rmtree", "out/examples", "">>
ExCopyOut == <<"build_examples", "copytree", "docs/source/examples", "out/examples">>

\* The operations of the for loop from example k on, when exactly the
\* examples with an index in R had a directory to remove.
RECURSIVE LoopOps(_, _)
LoopOps(k, R) ==
    IF k > Len(EXAMPLES) THEN <<>>
    ELSE (IF k \in R THEN <<ExRemove(EXAMPLES[k])>> ELSE <<>>)
         \o <<ExCopy(EXAMPLES[k])>> \o LoopOps(k + 1, R)

ExTails == {<<ExRemoveOut, ExCopyOut>>, <<ExCopyOut>>}

\* what a whole call of build_examples may do, by the marker at its call
ExExpected(marker) ==
    IF marker THEN ExTails
    ELSE {ExCalls \o LoopOps(1, R) \o t : R \in SUBSET (1..Len(EXAMPLES)), t \in ExTails}

IsExampleCopy(ev) == IsExEvent(ev) /\ ev[2] = "copytree" /\ ev[4] # "out/examples"

IsLoopEvent(ev) ==
    IsExEvent(ev) /\ ev[2] \in {"rmtree", "copytree"} /\ ev[3] # "out/examples"
        /\ ev[4] # "out/examples"

\* C4 as stated: every completed call of build_examples has copied each of
\* the three example outputs into the docs source tree, and nothing but the
\* three examples is copied, into the docs source tree or <out_dir>/examples.
C4_EveryCallCopiesThree ==
    pc = "done" =>
        /\ \A e \in ExampleNames :
              \E k \in 1..Len(log) : Name(log[k]) = ExCopy(e) /\ log[k][5] = "ok"
        /\ \A n \in EntryNames \ ExampleNames :
              outEx.entries[n] = "none" /\ docsEx[n] = pre.docsEx[n]

\* C4 amended: a completed call of build_examples that found the examples
\* marker absent has copied exactly the three example outputs, in the order
\* of EXAMPLES, into the docs source tree; one that found the marker has
\* copied none and left the docs source tree as it was; in both cases no
\* other entry of the docs source tree is touched, and <out_dir>/examples is
\* a copy of all of docs/source/examples, whatever entries that holds.
C4_CopiesThreeWhenBuilding ==
    pc = "done" =>
        /\ Names(SelectSeq(log, IsExampleCopy)) =
              IF pre.ex THEN <<>> ELSE [k \in 1..Len(EXAMPLES) |-> ExCopy(EXAMPLES[k])]
        /\ \A n \in EntryNames \ ExampleNames : docsEx[n] = pre.docsEx[n]
        /\ pre.ex => docsEx = pre.docsEx
        /\ ~pre.ex => \A e \in ExampleNames : docsEx[e] = repoEx[e]
        /\ outEx = [exists |-> TRUE, entries |-> docsEx]

\* a completed call that built, over a docs source tree with another entry
C4_Witness == pc = "done" /\ ~pre.ex /\ docsEx[OtherEntry] # "none"

\* C8: with the examples marker absent, build_examples runs the four
\* commands in order, each after the one before it ended well, then the
\* per-example copies, and last the copy of docs/source/examples into
\* <out_dir>/examples, a pre-existing destination being removed first; with
\* the marker present it runs none of the commands and still makes that
\* last copy.
C8_ExamplesOrder ==
    /\ OnlyLastMayFail(ExLog)
    /\ \E full \in ExExpected(pre.ex) : IsPrefix(Names(ExLog), full)
    /\ pc = "done" =>
          /\ ExLog # <<>>
          /\ Name(ExLog[Len(ExLog)]) = ExCopyOut
          /\ Names(ExLog) \in ExExpected(pre.ex)

\* a call that built, removed an old copy of every example and of the destination
C8_Witness == pc = "done" /\ ~pre.ex /\ Len(ExLog) = 12

\* a call that found the marker and still copied
C8_WitnessSkip == pc = "done" /\ pre.ex /\ Len(ExLog) = 2

----------------------------------------------------------------------------
(* Claims about failures and about setup.                                  *)

Failed == \E k \in 1..Len(log) : log[k][5] # "ok"

ApiCallFailed ==
    \E k \in 1..Len(log) : IsApiEvent(log[k]) /\ IsCall(log[k]) /\ log[k][5] # "ok"

ExCallFailed ==
    \E k \in 1..Len(log) : IsExEvent(log[k]) /\ IsCall(log[k]) /\ log[k][5] # "ok"

\* C5: after a failed external command or filesystem operation the run is
\* in the error outcome and takes no further step: the only step that
\* follows is a new build, which leaves the filesystem as the failure left it.
C5_FailureAborts ==
    [][Failed => /\ pc = "error"
                 /\ pc' = "setup_copy"
                 /\ log' = <<>>
                 /\ UNCHANGED fsVars]_vars

\* a run that failed inside build_examples, after build_api_docs returned
C5_Witness == pc = "error" /\ Failed /\ ApiCompleted /\ ExLog # <<>>

SetupCopy == <<"setup", "copy", "CHANGELOG.md", "docs/source/changelog.md">>
SetupCss == <<"setup", "add_css_file", "css/custom.css", "">>

FnRank(fn) == CASE fn = "setup" -> 1
                [] fn = "build_api_docs" -> 2
                [] fn = "build_examples" -> 3

Count(name) == Cardinality({k \in 1..Len(log) : Name(log[k]) = name})

ApiPcs == {"api_check", "api_npm", "api_yarn", "api_docs", "api_rmtree",
           "api_copytree", "api_index"}

ExPcs == {"ex_check", "ex_npm", "ex_yarn", "ex_build", "ex_build_examples",
          "loop_rmtree", "loop_copytree", "ex_rmtree", "ex_copytree", "done"}

\* C6: a run of setup copies the changelog, registers the stylesheet, runs
\* build_api_docs and then build_examples, in this order; build_examples is
\* entered only after build_api_docs has returned; a completed run has done
\* each of the four exactly once.
C6_SetupOrder ==
    /\ \A j, k \in 1..Len(log) : j < k => FnRank(log[j][1]) <= FnRank(log[k][1])
    /\ Len(log) >= 1 => Name(log[1]) = SetupCopy
    /\ Len(log) >= 2 => Name(log[2]) = SetupCss /\ log[1][5] = "ok"
    /\ \A k \in 3..Len(log) : log[k][1] # "setup"
    /\ pc \in ApiPcs \cup ExPcs => Len(log) >= 2 /\ changelog = "copied"
    /\ (pc \in ExPcs \/ ExLog # <<>>) => ApiCompleted
    /\ pc = "done" =>
          /\ Count(SetupCopy) = 1
          /\ Count(SetupCss) = 1
          /\ Count(ApiCopyIndex) = 1
          /\ Count(ExCopyOut) = 1
          /\ css_files = <<"css/custom.css">>

\* a completed run in which both helpers built
C6_Witness == pc = "done" /\ ~pre.api /\ ~pre.ex

\* C9: when an external command of build_api_docs has failed, <out_dir>/api
\* is as it was at the call; when one of build_examples has failed,
\* <out_dir>/examples and the example directories under docs/source/examples
\* are as they were at the call.
C9_CallFailureLeavesOutput ==
    /\ ApiCallFailed => outApi = pre.outApi
    /\ ExCallFailed => outEx = pre.outEx /\ docsEx = pre.docsEx

\* yarn build:examples failed over an existing destination and example directory
C9_Witness ==
    /\ pc = "error"
    /\ ExCallFailed
    /\ Len(ExLog) = 4
    /\ outEx.exists
    /\ docsEx[EXAMPLES[2]] # "none"

\* yarn docs failed over an existing <out_dir>/api
C9_WitnessApi == pc = "error" /\ ApiCallFailed /\ Len(ApiLog) = 3 /\ outApi.exists

----------------------------------------------------------------------------
(* The marker and the examples, over runs that start from a docs source    *)
(* tree without example directories.                                       *)

InitFromEmpty == Init /\ \A e \in ExampleNames : docsEx[e] = "none"

SpecFromEmpty == InitFromEmpty /\ [][Next]_vars

BetweenRuns == pc \in {"done", "error", "setup_copy"}

AllExamplesPresent == \A e \in ExampleNames : docsEx[e] # "none"

----------------------------------------------------------------------------
(* Loading the configuration, over the manifests of a bounded size.        *)

\* the longest manifest of arbitrary tokens
MaxTokens == 5

\* the most items of a generated manifest object
MaxPairs == 2

SeqsUpTo(S, n) == UNION {[1..m -> S] : m \in 0..n}

\* the values of the generated manifests: a string, or an object of one item
ItemValues == {<<x>> : x \in Strings}
                 \cup {<<"{", k, ":", x, "}">> : k \in Strings, x \in Strings}

Items == {<<k, ":">> \o v : k \in Strings, v \in ItemValues}

RECURSIVE Joined(_)
Joined(items) ==
    IF Len(items) = 0 THEN <<>>
    ELSE IF Len(items) = 1 THEN items[1]
    ELSE items[1] \o <<",">> \o Joined(Tail(items))

\* well-formed manifests: objects of up to MaxPairs items
ObjectTexts == {<<"{">> \o Joined(items) \o <<"}">> : items \in SeqsUpTo(Items, MaxPairs)}

ManifestTexts == SeqsUpTo(Tokens, MaxTokens) \cup ObjectTexts

InitConf ==
    /\ pc = "conf_load"
    /\ log = <<>>
    /\ css_files = <<>>
    /\ i = 0
    /\ yarn = "unset"
    /\ pre = NoPre
    /\ loop_failed = FALSE
    /\ changelog = "none"
    /\ docsApi = Absent
    /\ outApi = Absent
    /\ repoEx = [e \in ExampleNames |-> "index"]
    /\ docsEx = NoEntries
    /\ outEx = AbsentEx
    /\ manifest \in {[exists |-> FALSE, text |-> <<>>]}
                      \cup {[exists |-> TRUE, text |-> t] : t \in ManifestTexts}
    /\ data = Unset
    /\ version = Unset
    /\ release = Unset

NextConf == load_conf

SpecConf == InitConf /\ [][NextConf]_vars

\* an object without nested objects: "{" key ":" string ("," key ":" string)* "}"
IsFlatObject(text) ==
    /\ Len(text) >= 5
    /\ Len(text) % 4 = 1
    /\ text[1] = "{"
    /\ text[Len(text)] = "}"
    /\ \A k \in 2..(Len(text) - 1) :
          CASE k % 4 = 2 -> text[k] \in Strings
            [] k % 4 = 3 -> text[k] = ":"
            [] k % 4 = 0 -> text[k] \in Strings
            [] k % 4 = 1 -> text[k] = ","

\* the positions of the keys "version" of a flat object
VersionKeys(text) == {k \in 2..(Len(text) - 1) : k % 4 = 2 /\ text[k] = "version"}

LastOf(S) == CHOOSE k \in S : \A j \in S : j <= k

\* C7: when the manifest is valid JSON with a version field, version and
\* release are both the value of that field (for an object of strings: the
\* string that follows the last key "version"); when the manifest is
\* missing, is not valid JSON or has no version field, loading ends in an
\* error and version and release stay unbound.
C7_VersionFromManifest ==
    LET r == JsonLoads(manifest.text)
        valid == manifest.exists /\ r.ok
        hasField == valid /\ r.val.t = "obj" /\ \E p \in r.val.m : p[1] = "version"
    IN  /\ pc = "conf_load" => version = Unset /\ release = Unset
        /\ (pc # "conf_load" /\ hasField) =>
              /\ pc = "conf_done"
              /\ release = version
              /\ <<"version", version>> \in r.val.m
              /\ (IsFlatObject(manifest.text) /\ VersionKeys(manifest.text) # {}) =>
                    version = Str(manifest.text[LastOf(VersionKeys(manifest.text)) + 2])
        /\ (pc # "conf_load" /\ ~hasField) =>
              /\ pc = "error"
              /\ version = Unset
              /\ release = Unset
        /\ (IsFlatObject(manifest.text) /\ manifest.exists) =>
              /\ r.ok
              /\ (VersionKeys(manifest.text) # {}) = hasField

\* the manifest {"version": "name", "version": "1.0.0"} was loaded
C7_Witness ==
    /\ pc = "conf_done"
    /\ manifest.text = <<"{", "version", ":", "name", ",", "version", ":", "1.0.0", "}">>
    /\ version = Str("1.0.0")
    /\ release = Str("1.0.0")

\* a manifest whose only version field is inside a nested object was refused
C7_WitnessNested ==
    /\ pc = "error"
    /\ manifest.text = <<"{", "name", ":", "{", "version", ":", "1.0.0", "}", "}">>
    /\ version = Unset

====
